---- MODULE Spec2Model ----
(***************************************************************************)
(* Model of the manifest extraction and sanitization pipeline of           *)
(* gcp_kube_resource_reader/kube_resource_reader.py (KubeResourceReader).  *)
(*                                                                         *)
(* A Python str is a sequence of one-character strings.  A JSON value is a *)
(* record [t, v]: t = "map" with v the sequence of <<key, value>> pairs in *)
(* insertion order (a Python dict), t = "list" with v the items, t = "str"  *)
(* with v the characters, t = "null" (None).  A raised exception is the    *)
(* value Raise.                                                            *)
(***************************************************************************)
EXTENDS Integers, Sequences, FiniteSets, TLC

(* ------------------------------------------------------------------ *)
(* String literals of the source                                       *)
(* ------------------------------------------------------------------ *)
\* 'metadata'
k_metadata == <<"m","e","t","a","d","a","t","a">>
\* 'resourceVersion'
k_resourceVersion == <<"r","e","s","o","u","r","c","e","V","e","r","s","i","o","n">>
\* 'uid'
k_uid == <<"u","i","d">>
\* 'generation'
k_generation == <<"g","e","n","e","r","a","t","i","o","n">>
\* 'creationTimestamp'
k_creationTimestamp == <<"c","r","e","a","t","i","o","n","T","i","m","e","s","t","a","m","p">>
\* 'managedFields'
k_managedFields == <<"m","a","n","a","g","e","d","F","i","e","l","d","s">>
\* 'annotations'
k_annotations == <<"a","n","n","o","t","a","t","i","o","n","s">>
\* 'kubectl.kubernetes.io/last-applied-configuration'
k_lastApplied == <<"k","u","b","e","c","t","l",".","k","u","b","e","r","n","e","t","e","s",".","i","o","/","l","a","s","t","-","a","p","p","l","i","e","d","-","c","o","n","f","i","g","u","r","a","t","i","o","n">>
\* 'deployment.kubernetes.io/revision'
k_revision == <<"d","e","p","l","o","y","m","e","n","t",".","k","u","b","e","r","n","e","t","e","s",".","i","o","/","r","e","v","i","s","i","o","n">>
\* 'kubernetes.io/change-cause'
k_changeCause == <<"k","u","b","e","r","n","e","t","e","s",".","i","o","/","c","h","a","n","g","e","-","c","a","u","s","e">>
\* 'cloud.google.com/neg'
k_neg == <<"c","l","o","u","d",".","g","o","o","g","l","e",".","c","o","m","/","n","e","g">>
\* 'cloud.google.com/neg-status'
k_negStatus == <<"c","l","o","u","d",".","g","o","o","g","l","e",".","c","o","m","/","n","e","g","-","s","t","a","t","u","s">>
\* 'volume.kubernetes.io/selected-node'
k_selectedNode == <<"v","o","l","u","m","e",".","k","u","b","e","r","n","e","t","e","s",".","i","o","/","s","e","l","e","c","t","e","d","-","n","o","d","e">>
\* 'pv.kubernetes.io/bind-completed'
k_bindCompleted == <<"p","v",".","k","u","b","e","r","n","e","t","e","s",".","i","o","/","b","i","n","d","-","c","o","m","p","l","e","t","e","d">>
\* 'labels'
k_labels == <<"l","a","b","e","l","s">>
\* 'helm.sh/chart'
k_helmChart == <<"h","e","l","m",".","s","h","/","c","h","a","r","t">>
\* 'ownerReferences'
k_ownerReferences == <<"o","w","n","e","r","R","e","f","e","r","e","n","c","e","s">>
\* 'spec'
k_spec == <<"s","p","e","c">>
\* 'template'
k_template == <<"t","e","m","p","l","a","t","e">>
\* 'pod-template-hash'
k_podTemplateHash == <<"p","o","d","-","t","e","m","p","l","a","t","e","-","h","a","s","h">>
\* 'pod-template-generation'
k_podTemplateGeneration == <<"p","o","d","-","t","e","m","p","l","a","t","e","-","g","e","n","e","r","a","t","i","o","n">>
\* 'kubectl.kubernetes.io/restartedAt'
k_restartedAt == <<"k","u","b","e","c","t","l",".","k","u","b","e","r","n","e","t","e","s",".","i","o","/","r","e","s","t","a","r","t","e","d","A","t">>
\* 'selector'
k_selector == <<"s","e","l","e","c","t","o","r">>
\* 'matchLabels'
k_matchLabels == <<"m","a","t","c","h","L","a","b","e","l","s">>
\* 'kind'
k_kind == <<"k","i","n","d">>
\* 'Service'
s_Service == <<"S","e","r","v","i","c","e">>
\* 'name'
k_name == <<"n","a","m","e">>
\* '-headless'
s_headless == <<"-","h","e","a","d","l","e","s","s">>
\* 'clusterIP'
k_clusterIP == <<"c","l","u","s","t","e","r","I","P">>
\* 'clusterIPs'
k_clusterIPs == <<"c","l","u","s","t","e","r","I","P","s">>
\* 'loadBalancerIP'
k_loadBalancerIP == <<"l","o","a","d","B","a","l","a","n","c","e","r","I","P">>
\* 'PersistentVolumeClaim'
s_PersistentVolumeClaim == <<"P","e","r","s","i","s","t","e","n","t","V","o","l","u","m","e","C","l","a","i","m">>
\* 'volumeName'
k_volumeName == <<"v","o","l","u","m","e","N","a","m","e">>
\* 'status'
k_status == <<"s","t","a","t","u","s">>
\* 'Search_and_Replace'
k_SearchAndReplace == <<"S","e","a","r","c","h","_","a","n","d","_","R","e","p","l","a","c","e">>
\* 'Namespaces'
s_Namespaces == <<"N","a","m","e","s","p","a","c","e","s">>

(* ------------------------------------------------------------------ *)
(* Values                                                              *)
(* ------------------------------------------------------------------ *)
Null == [t |-> "null", v |-> <<>>]
Str(s) == [t |-> "str", v |-> s]
Map(pairs) == [t |-> "map", v |-> pairs]
List(items) == [t |-> "list", v |-> items]
\* an exception propagating out of a call
Raise == [t |-> "raise", v |-> <<>>]

IsMap(x) == x.t = "map"
IsStr(x) == x.t = "str"
IsNull(x) == x.t = "null"
IsList(x) == x.t = "list"
IsRaise(x) == x.t = "raise"

\* Python truth value of a value: None, "", [] and {} are false
Truthy(x) == (x.t \in {"map", "list", "str"}) /\ Len(x.v) > 0

\* key in d
Has(d, k) == \E i \in 1..Len(d.v) : d.v[i][1] = k
KeyIdx(d, k) == CHOOSE i \in 1..Len(d.v) : d.v[i][1] = k
\* d[k]
Item(d, k) == d.v[KeyIdx(d, k)][2]
\* d.get(k, default)
DictGet(d, k, default) == IF Has(d, k) THEN Item(d, k) ELSE default
\* d.pop(k, None), as the dict it leaves
DictPop(d, k) == Map(SelectSeq(d.v, LAMBDA p : p[1] # k))
\* d[k] = x: in place when the key exists, appended otherwise
DictSet(d, k, x) ==
    IF Has(d, k) THEN Map([d.v EXCEPT ![KeyIdx(d, k)] = <<k, x>>])
    ELSE Map(Append(d.v, <<k, x>>))
\* what a chain of subscripts x[k1][k2]... finds: Absent when it leaves the dicts
Absent == [t |-> "absent", v |-> <<>>]
RECURSIVE At(_, _)
At(x, path) ==
    IF path = <<>> THEN x
    ELSE IF IsMap(x) /\ Has(x, Head(path)) THEN At(Item(x, Head(path)), Tail(path))
    ELSE Absent
HasAt(x, path) == At(x, path) # Absent
RECURSIVE PopAll(_, _)
\* the pops of a list of keys, one after the other
PopAll(d, keys) ==
    IF keys = <<>> THEN d ELSE PopAll(DictPop(d, Head(keys)), Tail(keys))

(* ------------------------------------------------------------------ *)
(* json.dumps(data, indent=2) and json.loads                          *)
(* ------------------------------------------------------------------ *)
RECURSIVE Flatten(_, _, _)
\* the concatenation of the sequences parts[lo..hi]
Flatten(parts, lo, hi) ==
    IF lo > hi THEN <<>>
    ELSE IF lo = hi THEN parts[lo]
    ELSE Flatten(parts, lo, (lo + hi) \div 2) \o Flatten(parts, (lo + hi) \div 2 + 1, hi)
\* the first of a set of positions, 0 when there is none
FirstOf(positions) ==
    IF positions = {} THEN 0 ELSE CHOOSE j \in positions : \A k \in positions : j <= k

\* a character inside a JSON string: '"', '\' and newline are escaped
EscapeChar(c) ==
    CASE c = "\"" -> <<"\\", "\"">>
      [] c = "\\" -> <<"\\", "\\">>
      [] c = "\n" -> <<"\\", "n">>
      [] OTHER -> <<c>>
\* the body of a JSON string
Escape(s) == Flatten([i \in 1..Len(s) |-> EscapeChar(s[i])], 1, Len(s))
Quoted(s) == <<"\"">> \o Escape(s) \o <<"\"">>

RECURSIVE Indent(_)
\* newline and the indentation of a nesting level (two spaces a level)
Indent(level) == IF level = 0 THEN <<"\n">> ELSE Indent(level - 1) \o <<" ", " ">>

RECURSIVE Dumps(_, _)
RECURSIVE DumpItems(_, _, _)
DumpItems(pairs, i, level) ==
    IF i > Len(pairs) THEN <<>>
    ELSE (IF i > 1 THEN <<",">> ELSE <<>>) \o Indent(level)
         \o Quoted(pairs[i][1]) \o <<":", " ">> \o Dumps(pairs[i][2], level)
         \o DumpItems(pairs, i + 1, level)
\* json.dumps(x, indent=2) of a value nested `level` deep
Dumps(x, level) ==
    CASE IsNull(x) -> <<"n", "u", "l", "l">>
      [] IsStr(x) -> Quoted(x.v)
      [] IsMap(x) ->
           IF x.v = <<>> THEN <<"{", "}">>
           ELSE <<"{">> \o DumpItems(x.v, 1, level + 1) \o Indent(level) \o <<"}">>
json_dumps(x) == Dumps(x, 0)

\* a parser's answer: st = "ok" with the value and the position after it,
\* "err" (JSONDecodeError), or "unmodelled" (JSON this model has no value for:
\* numbers, true, false, arrays, the escapes \b \f \r \t \uXXXX)
POk(x, pos) == [st |-> "ok", v |-> x, pos |-> pos]
PErr == [st |-> "err", v |-> Null, pos |-> 0]
PUnmodelled == [st |-> "unmodelled", v |-> Null, pos |-> 0]

WS == {" ", "\n", "\t", "\r"}
RECURSIVE SkipWs(_, _)
SkipWs(txt, i) == IF i <= Len(txt) /\ txt[i] \in WS THEN SkipWs(txt, i + 1) ELSE i

RECURSIVE ScanStringKeepBackslash(_, _, _)
\* a variant of ScanString that keeps the backslash of an escaped backslash
ScanStringKeepBackslash(txt, i, acc) ==
    LET j == FirstOf({k \in i..Len(txt) : txt[k] \in {"\"", "\\", "\n", "\t", "\r"}})
        run == acc \o SubSeq(txt, i, j - 1)
    IN IF j = 0 THEN PErr
       ELSE CASE txt[j] = "\"" -> POk(run, j + 1)
              [] txt[j] = "\\" ->
                   (IF j + 1 > Len(txt) THEN PErr
                    ELSE CASE txt[j + 1] = "\"" -> ScanStringKeepBackslash(txt, j + 2, Append(run, "\""))
                           [] txt[j + 1] = "\\" -> ScanStringKeepBackslash(txt, j + 2, run \o <<"\\", "\\">>)
                           [] txt[j + 1] = "n" -> ScanStringKeepBackslash(txt, j + 2, Append(run, "\n"))
                           [] txt[j + 1] = "/" -> ScanStringKeepBackslash(txt, j + 2, Append(run, "/"))
                           [] txt[j + 1] \in {"b", "f", "r", "t", "u"} -> PUnmodelled
                           [] OTHER -> PErr)
              [] OTHER -> PErr
RECURSIVE ScanString(_, _, _)
\* py_scanstring from position i inside a string, `acc` decoded so far: up to
\* the next quote, backslash or control character in one step
ScanString(txt, i, acc) ==
    LET j == FirstOf({k \in i..Len(txt) : txt[k] \in {"\"", "\\", "\n", "\t", "\r"}})
        run == acc \o SubSeq(txt, i, j - 1)
    IN IF j = 0 THEN PErr
       ELSE CASE txt[j] = "\"" -> POk(run, j + 1)
              [] txt[j] = "\\" ->
                   (IF j + 1 > Len(txt) THEN PErr
                    ELSE CASE txt[j + 1] = "\"" -> ScanString(txt, j + 2, Append(run, "\""))
                           [] txt[j + 1] = "\\" -> ScanString(txt, j + 2, Append(run, "\\"))
                           [] txt[j + 1] = "n" -> ScanString(txt, j + 2, Append(run, "\n"))
                           [] txt[j + 1] = "/" -> ScanString(txt, j + 2, Append(run, "/"))
                           [] txt[j + 1] \in {"b", "f", "r", "t", "u"} -> PUnmodelled
                           [] OTHER -> PErr)
              [] OTHER -> PErr

\* dict(pairs) for one more pair: a repeated key keeps its place, takes the new value
AddPair(pairs, k, x) == DictSet(Map(pairs), k, x).v

RECURSIVE ScanValue(_, _)
RECURSIVE ScanMembers(_, _, _)
\* JSONObject from a member's opening quote at i, `pairs` parsed so far
ScanMembers(txt, i, pairs) ==
    IF i > Len(txt) \/ txt[i] # "\"" THEN PErr
    ELSE LET k == ScanString(txt, i + 1, <<>>) IN
      IF k.st # "ok" THEN k
      ELSE LET c == SkipWs(txt, k.pos) IN
        IF c > Len(txt) \/ txt[c] # ":" THEN PErr
        ELSE LET x == ScanValue(txt, SkipWs(txt, c + 1)) IN
          IF x.st # "ok" THEN x
          ELSE LET e == SkipWs(txt, x.pos)
                   now == AddPair(pairs, k.v, x.v) IN
            IF e > Len(txt) THEN PErr
            ELSE CASE txt[e] = "}" -> POk(Map(now), e + 1)
                   [] txt[e] = "," -> ScanMembers(txt, SkipWs(txt, e + 1), now)
                   [] OTHER -> PErr
\* scan_once at position i
ScanValue(txt, i) ==
    IF i > Len(txt) THEN PErr
    ELSE CASE txt[i] = "\"" ->
                (LET s == ScanString(txt, i + 1, <<>>) IN
                 IF s.st = "ok" THEN POk(Str(s.v), s.pos) ELSE s)
           [] txt[i] = "{" ->
                (LET j == SkipWs(txt, i + 1) IN
                 IF j <= Len(txt) /\ txt[j] = "}" THEN POk(Map(<<>>), j + 1)
                 ELSE ScanMembers(txt, j, <<>>))
           [] txt[i] = "n" ->
                (IF i + 3 <= Len(txt) /\ SubSeq(txt, i, i + 3) = <<"n", "u", "l", "l">>
                 THEN POk(Null, i + 4) ELSE PErr)
           [] txt[i] \in {"t", "f", "[", "-", "N", "I",
                          "0", "1", "2", "3", "4", "5", "6", "7", "8", "9"} -> PUnmodelled
           [] OTHER -> PErr
\* json.loads(txt): the value, Raise on a JSONDecodeError
ParseJson(txt) ==
    LET x == ScanValue(txt, SkipWs(txt, 1)) IN
    IF x.st # "ok" THEN x
    ELSE IF SkipWs(txt, x.pos) = Len(txt) + 1 THEN x ELSE PErr
json_loads(txt) ==
    LET p == ParseJson(txt) IN
    CASE p.st = "ok" -> p.v
      [] p.st = "err" -> Raise
      [] OTHER -> [t |-> "unmodelled", v |-> <<>>]

(* ------------------------------------------------------------------ *)
(* str.replace                                                         *)
(* ------------------------------------------------------------------ *)
RECURSIVE ReplaceFrom(_, _, _, _)
\* from position i on: up to the next occurrence of `old` in one step
ReplaceFrom(s, i, old, new) ==
    LET m == FirstOf({j \in i..(Len(s) - Len(old) + 1) : SubSeq(s, j, j + Len(old) - 1) = old})
    IN IF m = 0 THEN SubSeq(s, i, Len(s))
       ELSE SubSeq(s, i, m - 1) \o new \o ReplaceFrom(s, m + Len(old), old, new)
\* `new` before every character of s and at its end
Interleave(s, new) == Flatten([i \in 1..Len(s) |-> new \o <<s[i]>>], 1, Len(s)) \o new
\* s.replace(old, new): every non-overlapping occurrence, leftmost first; an
\* empty `old` matches before every character and at the end
str_replace(s, old, new) ==
    IF old = <<>> THEN Interleave(s, new) ELSE ReplaceFrom(s, 1, old, new)

(* ------------------------------------------------------------------ *)
(* Sanitizer: clean_kubectl_output_json                                *)
(* ------------------------------------------------------------------ *)
\* s.endswith(suffix)
EndsWith(s, suffix) ==
    Len(s) >= Len(suffix) /\ SubSeq(s, Len(s) - Len(suffix) + 1, Len(s)) = suffix

\* the value a mutated sub-dict leaves in its parent: d.get(k, {}) is part of d
\* only when k is a key of d
WriteBack(d, k, x) == IF Has(d, k) THEN DictSet(d, k, x) ELSE d

\* x.pop(...) for each key: an AttributeError when x is no dict
PopsOf(x, keys) == IF IsMap(x) THEN PopAll(x, keys) ELSE Raise

\* d.get(k, {}) followed by pops on it (d a dict), as the d it leaves
GetAndPop(d, k, keys) ==
    LET sub == PopsOf(DictGet(d, k, Map(<<>>)), keys) IN
    IF IsRaise(sub) THEN Raise ELSE WriteBack(d, k, sub)

MetadataKeys ==
    <<k_resourceVersion, k_uid, k_generation, k_creationTimestamp, k_managedFields>>
AnnotationKeys ==
    <<k_lastApplied, k_revision, k_changeCause, k_neg, k_negStatus,
      k_selectedNode, k_bindCompleted>>
HashLabelKeys == <<k_podTemplateHash, k_podTemplateGeneration>>

\* lines 226-248 on the dict `metadata`
CleanMetadata(metadata) ==
    LET m1 == PopsOf(metadata, MetadataKeys)
        m2 == IF IsRaise(m1) THEN Raise ELSE GetAndPop(m1, k_annotations, AnnotationKeys)
        m3 == IF IsRaise(m2) THEN Raise ELSE GetAndPop(m2, k_labels, <<k_helmChart>>)
    IN IF IsRaise(m3) THEN Raise ELSE DictPop(m3, k_ownerReferences)

\* lines 256-265 on the value of spec.template (truthy)
CleanTemplate(template) ==
    IF ~IsMap(template) THEN Raise
    ELSE LET tm == DictGet(template, k_metadata, Map(<<>>)) IN
      IF ~Truthy(tm) THEN template
      ELSE IF ~IsMap(tm) THEN Raise
      ELSE LET t1 == GetAndPop(tm, k_labels, HashLabelKeys)
               t2 == IF IsRaise(t1) THEN Raise
                     ELSE GetAndPop(t1, k_annotations, <<k_restartedAt, k_lastApplied>>)
           IN IF IsRaise(t2) THEN Raise
              ELSE WriteBack(template, k_metadata, DictPop(t2, k_creationTimestamp))

\* lines 268-272 on the dict `spec`
CleanSelector(spec) ==
    LET selector == DictGet(spec, k_selector, Map(<<>>)) IN
    IF ~Truthy(selector) THEN spec
    ELSE IF ~IsMap(selector) THEN Raise
    ELSE LET s1 == GetAndPop(selector, k_matchLabels, HashLabelKeys) IN
         IF IsRaise(s1) THEN Raise ELSE WriteBack(spec, k_selector, s1)

\* lines 254-272 on the dict `spec`: the selector is cleaned inside `if template:`
CleanTemplateAndSelector(spec) ==
    LET template == DictGet(spec, k_template, Map(<<>>)) IN
    IF ~Truthy(template) THEN spec
    ELSE LET t1 == CleanTemplate(template) IN
         IF IsRaise(t1) THEN Raise
         ELSE CleanSelector(WriteBack(spec, k_template, t1))

\* data.get('metadata').get('name') as far as .endswith can be called on it: the
\* name, or Raise (None has no .get, a name that is no str has no .endswith)
ServiceName(data) ==
    LET metadata == DictGet(data, k_metadata, Null) IN
    IF ~IsMap(metadata) THEN Raise
    ELSE LET name == DictGet(metadata, k_name, Null) IN
         IF IsStr(name) THEN name ELSE Raise

\* a variant of CleanService without the '-headless' test
CleanServiceAnyName(data, spec) ==
    IF DictGet(data, k_kind, Null) # Str(s_Service) THEN spec
    ELSE IF IsRaise(ServiceName(data)) THEN Raise
    ELSE PopAll(spec, <<k_clusterIP, k_clusterIPs, k_loadBalancerIP>>)
\* lines 275-278 on the dict `spec`
CleanService(data, spec) ==
    IF DictGet(data, k_kind, Null) # Str(s_Service) THEN spec
    ELSE LET name == ServiceName(data) IN
         IF IsRaise(name) THEN Raise
         ELSE IF EndsWith(name.v, s_headless) THEN spec
         ELSE PopAll(spec, <<k_clusterIP, k_clusterIPs, k_loadBalancerIP>>)

\* lines 280-281
CleanPVC(data, spec) ==
    IF DictGet(data, k_kind, Null) = Str(s_PersistentVolumeClaim)
    THEN DictPop(spec, k_volumeName) ELSE spec

\* lines 251-281 on the dict `data`
CleanSpec(data) ==
    LET spec == DictGet(data, k_spec, Map(<<>>)) IN
    IF ~Truthy(spec) THEN data
    ELSE IF ~IsMap(spec) THEN Raise
    ELSE LET s1 == CleanTemplateAndSelector(spec)
             s2 == IF IsRaise(s1) THEN Raise ELSE CleanService(data, s1)
         IN IF IsRaise(s2) THEN Raise ELSE WriteBack(data, k_spec, CleanPVC(data, s2))

\* lines 223-286 on the parsed `data`
CleanData(data) ==
    IF ~Truthy(data) THEN Str(<<>>)
    ELSE IF ~IsMap(data) THEN Raise
    ELSE LET m == CleanMetadata(DictGet(data, k_metadata, Map(<<>>)))
             d1 == IF IsRaise(m) THEN Raise ELSE WriteBack(data, k_metadata, m)
             d2 == IF IsRaise(d1) THEN Raise ELSE CleanSpec(d1)
         IN IF IsRaise(d2) THEN Raise ELSE DictPop(d2, k_status)

\* clean_kubectl_output_json(json_content): the cleaned dict, "" for falsy data or
\* a JSONDecodeError, Raise for any other exception (none is caught)
clean_kubectl_output_json(json_content) ==
    LET data == json_loads(json_content) IN
    IF IsRaise(data) THEN Str(<<>>) ELSE CleanData(data)

(* ------------------------------------------------------------------ *)
(* Placeholder Engine: add_placeholders                                *)
(* ------------------------------------------------------------------ *)
RECURSIVE SplitFrom(_, _, _, _)
SplitFrom(s, i, sep, cur) ==
    IF i > Len(s) THEN <<cur>>
    ELSE IF s[i] = sep THEN <<cur>> \o SplitFrom(s, i + 1, sep, <<>>)
    ELSE SplitFrom(s, i + 1, sep, Append(cur, s[i]))
\* path.split('|')
SplitPath(path) == SplitFrom(path, 1, "|", <<>>)

\* f"||{placeholder_name}||"
Token(placeholder_name) == <<"|", "|">> \o placeholder_name \o <<"|", "|">>

\* `current` is a reference into `data`: the key path `at` of the value it is
\* bound to, or None
Ref(at) == [none |-> FALSE, at |-> at]
NoneRef == [none |-> TRUE, at |-> <<>>]

RECURSIVE NavKeepFrom(_, _, _)
NavKeepFrom(data, parts, at) ==
    IF parts = <<>> THEN Ref(at)
    ELSE IF IsMap(At(data, at)) /\ Has(At(data, at), Head(parts))
         THEN NavKeepFrom(data, Tail(parts), Append(at, Head(parts)))
         ELSE Ref(at)
\* a variant of Navigate without `current = None`: a missing part leaves
\* `current` at the value reached so far
NavigateKeepLast(data, parts) == NavKeepFrom(data, parts, <<>>)

RECURSIVE NavFrom(_, _, _)
NavFrom(data, parts, at) ==
    IF parts = <<>> THEN Ref(at)
    ELSE IF IsMap(At(data, at)) /\ Has(At(data, at), Head(parts))
         THEN NavFrom(data, Tail(parts), Append(at, Head(parts)))
         ELSE NoneRef
\* lines 358-364: `current` after the walk over path_parts[:-1]
Navigate(data, parts) == NavFrom(data, parts, <<>>)

RECURSIVE AssignAt(_, _, _, _)
\* line 370, current[field_name] = x, as the `data` it leaves, `current` being
\* the dict at key path `at` of `data`
AssignAt(data, at, field_name, x) ==
    IF at = <<>> THEN DictSet(data, field_name, x)
    ELSE DictSet(data, Head(at), AssignAt(Item(data, Head(at)), Tail(at), field_name, x))

\* lines 353-370 for one path and placeholder name
ApplyPlaceholder(data, path, placeholder_name) ==
    LET path_parts == SplitPath(path)
        current == Navigate(data, SubSeq(path_parts, 1, Len(path_parts) - 1))
    IN IF Len(path_parts) < 2 THEN data
       ELSE IF ~current.none /\ IsMap(At(data, current.at))
            THEN AssignAt(data, current.at, path_parts[Len(path_parts)],
                          Str(Token(placeholder_name.v)))
            ELSE data

RECURSIVE ApplyEntries(_, _, _)
\* lines 351-370: the entries of one placeholder_item, in order
ApplyEntries(data, entries, i) ==
    IF i > Len(entries) THEN data
    ELSE ApplyEntries(ApplyPlaceholder(data, entries[i][1], entries[i][2]), entries, i + 1)

RECURSIVE ApplyItems(_, _, _)
\* a variant of ApplyItems in which a later rule never overwrites: the items are
\* applied last to first
ApplyItemsReversed(data, resource_config, i) ==
    IF i > Len(resource_config) THEN data
    ELSE LET rest == ApplyItems(data, resource_config, i + 1)
             placeholder_item == resource_config[i]
         IN IF ~IsMap(placeholder_item) THEN rest
            ELSE ApplyEntries(rest, placeholder_item.v, 1)
\* lines 346-370: the items of resource_config from the i-th on
ApplyItems(data, resource_config, i) ==
    IF i > Len(resource_config) THEN data
    ELSE LET placeholder_item == resource_config[i] IN
         IF ~IsMap(placeholder_item) THEN ApplyItems(data, resource_config, i + 1)
         ELSE ApplyItems(ApplyEntries(data, placeholder_item.v, 1), resource_config, i + 1)

\* a variant of FindResourceConfig that takes the first rule group whatever its name
FindFirstConfig(resource_placeholders, resource_name) ==
    LET hits == SelectSeq(resource_placeholders, LAMBDA item : IsMap(item) /\ Len(item.v) > 0)
    IN IF hits = <<>> THEN Null ELSE Head(hits).v[1][2]
\* lines 336-340: the rule list of the first item that has resource_name, else None
FindResourceConfig(resource_placeholders, resource_name) ==
    LET hits == SelectSeq(resource_placeholders,
                          LAMBDA item : IsMap(item) /\ Has(item, resource_name))
    IN IF hits = <<>> THEN Null ELSE Item(Head(hits), resource_name)

\* add_placeholders(data, resource_type, resource_name) with self.placeholders
add_placeholders(placeholders, data, resource_type, resource_name) ==
    IF ~Truthy(placeholders) \/ ~Has(placeholders, resource_type) THEN data
    ELSE LET resource_placeholders == Item(placeholders, resource_type) IN
      IF ~IsList(resource_placeholders) THEN data
      ELSE LET resource_config == FindResourceConfig(resource_placeholders.v, resource_name) IN
        IF ~Truthy(resource_config) \/ ~IsList(resource_config) THEN data
        ELSE ApplyItems(data, resource_config.v, 1)

(* ------------------------------------------------------------------ *)
(* Search/Replace Engine: apply_search_replace                         *)
(* ------------------------------------------------------------------ *)
RECURSIVE ReplaceEntries(_, _, _)
\* lines 391-394: the entries of one search_replace_item, in order
ReplaceEntries(result_content, entries, i) ==
    IF i > Len(entries) THEN result_content
    ELSE LET search_string == entries[i][1]
             replacement_string == entries[i][2]
         IN ReplaceEntries(
              IF IsStr(replacement_string)
              THEN str_replace(result_content, search_string, Token(replacement_string.v))
              ELSE result_content,
              entries, i + 1)

\* a variant of ReplaceItems that stops after the first item of the list
ReplaceFirstItemOnly(result_content, search_replace_config, i) ==
    IF i > Len(search_replace_config) \/ i > 1 THEN result_content
    ELSE IF ~IsMap(search_replace_config[i]) THEN result_content
    ELSE ReplaceEntries(result_content, search_replace_config[i].v, 1)
RECURSIVE ReplaceItems(_, _, _)
\* lines 386-394: the items of search_replace_config from the i-th on, each on
\* the text the one before left
ReplaceItems(result_content, search_replace_config, i) ==
    IF i > Len(search_replace_config) THEN result_content
    ELSE LET search_replace_item == search_replace_config[i] IN
         IF ~IsMap(search_replace_item)
         THEN ReplaceItems(result_content, search_replace_config, i + 1)
         ELSE ReplaceItems(ReplaceEntries(result_content, search_replace_item.v, 1),
                           search_replace_config, i + 1)

\* a variant of apply_search_replace that returns the record as it was given
\* when the replaced text does not parse
apply_search_replace_lenient(placeholders, data) ==
    IF ~Truthy(placeholders) \/ ~Has(placeholders, k_SearchAndReplace) THEN data
    ELSE LET search_replace_config == Item(placeholders, k_SearchAndReplace)
             parsed == json_loads(ReplaceItems(json_dumps(data), search_replace_config.v, 1))
         IN IF ~IsList(search_replace_config) \/ IsRaise(parsed) THEN data ELSE parsed

\* apply_search_replace(data, resource_type) with self.placeholders: the record
\* re-parsed, Raise when json.loads raises
apply_search_replace(placeholders, data) ==
    IF ~Truthy(placeholders) \/ ~Has(placeholders, k_SearchAndReplace) THEN data
    ELSE LET search_replace_config == Item(placeholders, k_SearchAndReplace) IN
      IF ~IsList(search_replace_config) THEN data
      ELSE json_loads(ReplaceItems(json_dumps(data), search_replace_config.v, 1))

(* ------------------------------------------------------------------ *)
(* Objects the cluster can hold, as `kubectl get -o json` prints them  *)
(* ------------------------------------------------------------------ *)
sv == Str(<<"v">>)
k_app == <<"a", "p", "p">>
s_Deployment == <<"D", "e", "p", "l", "o", "y", "m", "e", "n", "t">>
n_plain == <<"x">>
n_headless == <<"x">> \o s_headless

\* the ways a dict can hold key k: not at all, or with one of the values
Opt(k, values) == {<<>>} \cup {<<<<k, x>>>> : x \in values}

AnnotationChoices == {Null, Map(<<<<k_lastApplied, sv>>, <<k_app, sv>>>>)}
LabelChoices == {Map(<<<<k_helmChart, sv>>, <<k_app, sv>>>>)}
MetadataChoices ==
    {Null} \cup
    { Map(n \o <<<<k_uid, sv>>>> \o a \o l) :
        n \in Opt(k_name, {Str(n_plain), Str(n_headless)}),
        a \in Opt(k_annotations, AnnotationChoices),
        l \in Opt(k_labels, LabelChoices) }

HashLabels == Map(<<<<k_podTemplateHash, sv>>, <<k_app, sv>>, <<k_podTemplateGeneration, sv>>>>)
TemplateChoices ==
    { Map(<<<<k_metadata, Map(<<<<k_labels, HashLabels>>,
                                <<k_annotations, Map(<<<<k_restartedAt, sv>>>>)>>,
                                <<k_creationTimestamp, Null>>>>)>>>>),
      Map(<<<<k_metadata, Map(<<<<k_labels, Null>>>>)>>>>) }
SelectorChoices == {Map(<<<<k_matchLabels, HashLabels>>>>)}
ServiceFieldChoices ==
    {<<>>, <<<<k_clusterIP, sv>>, <<k_clusterIPs, sv>>, <<k_loadBalancerIP, sv>>>>}
SpecChoices ==
    {Null, Map(<<>>)} \cup
    { Map(t \o s \o ip \o vol) :
        t \in Opt(k_template, TemplateChoices), s \in Opt(k_selector, SelectorChoices),
        ip \in ServiceFieldChoices, vol \in Opt(k_volumeName, {sv}) }
KindChoices == {Str(s_Service), Str(s_PersistentVolumeClaim), Str(s_Deployment)}

\* the objects of the model's cluster
Objects ==
    { Map(k \o m \o s \o <<<<k_status, sv>>>>) :
        k \in Opt(k_kind, KindChoices), m \in Opt(k_metadata, MetadataChoices),
        s \in Opt(k_spec, SpecChoices) }

\* stdout of `kubectl get -o json` for an object: JSON text of the object
KubectlGet(obj) == json_dumps(obj)

(* ------------------------------------------------------------------ *)
(* Records and rule sets the Placeholder Engine is given               *)
(* ------------------------------------------------------------------ *)
\* the longest rule list of a resource
MaxRules == 2

PhRecords ==
    { Map(<<<<<<"a">>, Map(<<<<<<"b">>, Str(<<"x">>)>>,
                            <<<<"c">>, Map(<<<<<<"b">>, Str(<<"y">>)>>>>)>>>>)>>,
            <<<<"b">>, Str(<<"z">>)>>>>),
      Map(<<<<<<"a">>, Str(<<"x">>)>>, <<<<"c">>, Null>>>>),
      Map(<<<<<<"a">>, Map(<<>>)>>>>) }
PhPaths ==
    { <<"a", "|", "b">>, <<"a", "|", "c">>, <<"a", "|", "c", "|", "b">>,
      <<"a", "|", "b", "|", "c">>, <<"b">>, <<"c", "|", "a">> }
PhNames == {<<"P">>, <<"Q">>}
\* the items of a rule list: {path: name}, and an item that is no dict
RuleItems == {Map(<<<<p, Str(n)>>>>) : p \in PhPaths, n \in PhNames} \cup {Str(<<"x">>)}
RuleLists == UNION {[1..n -> RuleItems] : n \in 0..MaxRules}

t_K == <<"K">>
t_J == <<"J">>
n_n == <<"n">>
n_m == <<"m">>
\* a rule set with the rule list `rules` for resource n of kind K
RuleSet(rules) == Map(<<<<t_K, List(<<Map(<<<<n_n, List(rules)>>>>)>>)>>>>)
\* the same after an item that is no dict and the group of another resource
RuleSetAfterOthers(rules) ==
    Map(<<<<t_K, List(<<Str(<<"x">>),
                        Map(<<<<<<"o">>, List(<<Map(<<<<<<"a", "|", "b">>, Str(<<"O">>)>>>>)>>)>>>>),
                        Map(<<<<n_n, List(rules)>>>>)>>)>>>>)
PlaceholderSets ==
    {RuleSet(l) : l \in RuleLists}
    \cup {RuleSetAfterOthers(l) : l \in [1..1 -> RuleItems]}
    \cup { Map(<<>>),
           Map(<<<<t_K, Map(<<<<n_n, List(<<>>)>>>>)>>>>),
           Map(<<<<t_K, List(<<Map(<<<<n_n, Null>>>>)>>)>>>>) }

(* ------------------------------------------------------------------ *)
(* Records and rules the Search/Replace Engine is given                *)
(* ------------------------------------------------------------------ *)
\* the longest Search_and_Replace list made of the rules of SrChained
MaxSrRules == 2

SrRecords ==
    { Map(<<<<<<"x">>, Str(<<"x", "y", "x">>)>>>>),
      Map(<<<<<<"k">>, Map(<<<<<<"x">>, Str(<<"y", "\"", "x">>)>>, <<<<"y">>, Null>>>>)>>>>),
      Map(<<<<<<"|", "|", "P", "|", "|">>, Str(<<"x">>)>>, <<<<"y">>, Str(<<"y">>)>>>>),
      Map(<<<<<<"k">>, Str(<<"x", "\n", "y">>)>>, <<<<"x">>, Map(<<>>)>>>>),
      Map(<<<<<<"k">>, Map(<<<<<<"k">>, Str(<<"\\", "n", "y">>)>>>>)>>>>) }
SrLiterals ==
    { <<"x">>, <<"y">>, <<"y", "x">>, <<"P">>, <<"|">>, <<"n">>, <<"l">>, <<>>,
      <<"\"">>, <<"\\">>, <<"\n">>, <<":", " ">>, <<"y", "\"", "x">>,
      <<"\"", ",", "\n", " ", " ", "\"", "y", "\"", ":", " ", "\"">> }
SrNames == {<<"P">>, <<"x">>, <<"\"">>}
\* the items of a Search_and_Replace list: {literal: name}, a rule whose
\* replacement is no str, an item that is no dict
SrItems ==
    {Map(<<<<l, Str(n)>>>>) : l \in SrLiterals, n \in SrNames}
    \cup {Map(<<<<<<"x">>, Null>>>>), Str(<<"x">>)}
\* rules that feed one another
SrChained ==
    { Map(<<<<<<"x">>, Str(<<"P">>)>>>>), Map(<<<<<<"P">>, Str(<<"Q">>)>>>>),
      Map(<<<<<<"y">>, Str(<<"x">>)>>>>), Map(<<<<<<"|", "|">>, Str(<<"Q">>)>>>>) }
SrLists ==
    [1..1 -> SrItems] \cup UNION {[1..n -> SrChained] : n \in 0..MaxSrRules}
SrPlaceholderSets ==
    {Map(<<<<k_SearchAndReplace, List(l)>>>>) : l \in SrLists}
    \cup { Map(<<>>),
           Map(<<<<t_K, List(<<>>)>>>>),
           Map(<<<<k_SearchAndReplace, Map(<<<<<<"x">>, Str(<<"P">>)>>>>)>>>>) }

(* ------------------------------------------------------------------ *)
(* Output Writer: yaml.dump and the final trim                         *)
(* ------------------------------------------------------------------ *)
Letters ==
    {"a","b","c","d","e","f","g","h","i","j","k","l","m","n","o","p","q","r","s","t",
     "u","v","w","x","y","z","A","B","C","D","E","F","G","H","I","J","K","L","M","N",
     "O","P","Q","R","S","T","U","V","W","X","Y","Z"}
\* characters that keep a scalar from the plain style when it begins with them
YamlIndicators == {"#", ",", "[", "]", "{", "}", "&", "*", "!", "|", ">", "'", "\"", "%", "@"}
\* words the resolver reads as null or bool: they are written quoted
YamlWords ==
    { <<"n","u","l","l">>, <<"N","u","l","l">>, <<"N","U","L","L">>,
      <<"t","r","u","e">>, <<"T","r","u","e">>, <<"T","R","U","E">>,
      <<"f","a","l","s","e">>, <<"F","a","l","s","e">>, <<"F","A","L","S","E">>,
      <<"y","e","s">>, <<"Y","e","s">>, <<"Y","E","S">>, <<"n","o">>, <<"N","o">>, <<"N","O">>,
      <<"o","n">>, <<"O","n">>, <<"O","N">>, <<"o","f","f">>, <<"O","f","f">>, <<"O","F","F">> }
\* what the model has no YAML text for
YamlUnmodelled == <<"<unmodelled>">>

\* the characters of a scalar the model writes: letters, '-', '|', '_'
YamlSimple(s) == \A i \in 1..Len(s) : s[i] \in Letters \cup {"-", "|", "_"}
\* the emitter's choice for a str: plain when nothing forbids it
YamlPlain(s) ==
    /\ s # <<>> /\ YamlSimple(s)
    /\ s[1] \notin YamlIndicators
    /\ ~(s[1] = "-" /\ Len(s) = 1)
    /\ s \notin YamlWords
\* a str scalar: plain, else single-quoted
YamlScalar(s) ==
    IF ~YamlSimple(s) THEN YamlUnmodelled
    ELSE IF YamlPlain(s) THEN s
    ELSE <<"'">> \o s \o <<"'">>

Spaces(n) == [i \in 1..n |-> " "]

\* the block mapping m at indentation n, one "key: value" line per entry, a
\* non-empty mapping value on the lines below its key
RECURSIVE YamlMapping(_, _)
YamlMapping(m, n) ==
    Flatten([i \in 1..Len(m.v) |->
                LET val == m.v[i][2]
                    key == Spaces(n) \o YamlScalar(m.v[i][1]) \o <<":">>
                IN IF IsMap(val) /\ val.v # <<>> THEN key \o <<"\n">> \o YamlMapping(val, n + 2)
                   ELSE IF IsMap(val) THEN key \o <<" ", "{", "}", "\n">>
                   ELSE IF IsNull(val) THEN key \o <<" ", "n", "u", "l", "l", "\n">>
                   ELSE IF IsStr(val) THEN key \o <<" ">> \o YamlScalar(val.v) \o <<"\n">>
                   ELSE key \o YamlUnmodelled],
            1, Len(m.v))

\* yaml.dump(data, Dumper=IndentDumper, default_flow_style=False, sort_keys=False, ...)
yaml_dump(data) ==
    IF IsMap(data) /\ data.v # <<>> THEN YamlMapping(data, 0)
    ELSE IF IsMap(data) THEN <<"{", "}", "\n">>
    ELSE YamlUnmodelled

\* a variant of rstrip that removes one trailing character at most
rstrip_once(s, chars) ==
    IF s # <<>> /\ s[Len(s)] \in chars THEN SubSeq(s, 1, Len(s) - 1) ELSE s
\* s.rstrip(chars)
rstrip(s, chars) ==
    LET keep == {i \in 1..Len(s) : s[i] \notin chars}
    IN IF keep = {} THEN <<>>
       ELSE SubSeq(s, 1, CHOOSE i \in keep : \A j \in keep : j <= i)
\* s.strip()
strip(s) ==
    LET keep == {i \in 1..Len(s) : s[i] \notin WS}
    IN IF keep = {} THEN <<>>
       ELSE SubSeq(s, FirstOf(keep), CHOOSE i \in keep : \A j \in keep : j <= i)

\* the document separator written after each document
Boundary == <<"-", "-", "-", "\n">>
\* an output file: whether it exists, and the strings written to it in order
NoFile == [exists |-> FALSE, text |-> <<>>]
Opened == [exists |-> TRUE, text |-> <<>>]
Write(f, s) == [f EXCEPT !.text = Append(@, s)]
\* the content of the file
Content(f) == Flatten(f.text, 1, Len(f.text))
\* cleanup_output_file: the file rewritten without its trailing '-' and newlines
cleanup_output_file(f) ==
    IF ~f.exists THEN f
    ELSE [f EXCEPT !.text = <<rstrip(rstrip(Content(f), {"\n", "-"}), {"\n"})>>]

(* ------------------------------------------------------------------ *)
(* Fetch: kubectl against the cluster                                  *)
(* ------------------------------------------------------------------ *)
n_fluentd ==
    <<"m","l","i","s","a","-","m","o","n","i","t","o","r","i","n","g","-","f","l","u","e","n","t","d">>
n_fluentd_config == n_fluentd \o <<"-","c","o","n","f","i","g">>
ns_kube_system == <<"k","u","b","e","-","s","y","s","t","e","m">>

\* a namespace the loop would start from if namespace_name had an initial value
DefaultNamespace == Str(<<"d", "e", "f", "a", "u", "l", "t">>)
\* namespace_name before the loop assigns it: a local not yet bound
Unbound == Absent
\* the path run_kube_extraction writes to and returns (output_file, shortened)
output_file == <<".", "/", "o", "u", "t">>

\* the namespace fetch_resource queries
FetchNamespace(resource_name, namespace_name) ==
    IF resource_name \in {n_fluentd, n_fluentd_config} THEN Str(ns_kube_system)
    ELSE namespace_name
\* `kubectl -n ns get kind name -o json`: subprocess.run raises on an argument
\* that is no str
KubectlRuns(resource_name, namespace_name) == IsStr(FetchNamespace(resource_name, namespace_name))
Query(resource_type, resource_name, namespace_name) ==
    <<FetchNamespace(resource_name, namespace_name).v, resource_type, resource_name>>
\* its stdout: the object as JSON, nothing when the cluster has no such object
Stdout(cluster, query) ==
    IF query \in DOMAIN cluster THEN KubectlGet(cluster[query]) ELSE <<>>
\* a variant of fetch_resource that raises when kubectl prints nothing
fetch_resource_strict(cluster, resource_type, resource_name, namespace_name) ==
    IF ~KubectlRuns(resource_name, namespace_name) THEN Raise
    ELSE LET stdout == Stdout(cluster, Query(resource_type, resource_name, namespace_name))
         IN IF strip(stdout) # <<>> THEN clean_kubectl_output_json(stdout) ELSE Raise
\* fetch_resource: the cleaned record, None when kubectl printed nothing
fetch_resource(cluster, resource_type, resource_name, namespace_name) ==
    IF ~KubectlRuns(resource_name, namespace_name) THEN Raise
    ELSE LET stdout == Stdout(cluster, Query(resource_type, resource_name, namespace_name))
         IN IF strip(stdout) # <<>> THEN clean_kubectl_output_json(stdout) ELSE Null

\* a variant of load_placeholders without the handling of a missing file
load_placeholders_unguarded(placeholder_file) ==
    IF placeholder_file # Absent /\ ~Truthy(placeholder_file) THEN Map(<<>>)
    ELSE placeholder_file
\* load_placeholders: the rules file's content, {} when it is missing or empty
load_placeholders(placeholder_file) ==
    IF placeholder_file = Absent \/ ~Truthy(placeholder_file) THEN Map(<<>>)
    ELSE placeholder_file

(* ------------------------------------------------------------------ *)
(* Manifests, rule files and clusters a run is given                   *)
(* ------------------------------------------------------------------ *)
ns_s == <<"s">>
k_a == <<"a">>
k_b == <<"b">>

\* a workload whose fields the rules of RuleFiles address
WorkloadObject ==
    Map(<<<<k_kind, Str(s_Deployment)>>,
          <<k_metadata, Map(<<<<k_name, Str(n_plain)>>, <<k_uid, sv>>>>)>>,
          <<k_a, Map(<<<<k_b, Str(n_plain)>>>>)>>,
          <<k_status, sv>>>>)
\* a Service without metadata: the Sanitizer raises on it
BareService ==
    Map(<<<<k_kind, Str(s_Service)>>, <<k_spec, Map(<<<<k_clusterIP, sv>>>>)>>>>)
\* an object of which the Sanitizer leaves nothing
StatusOnly == Map(<<<<k_status, sv>>>>)
\* an object no rule of RuleFiles touches
OtherObject ==
    Map(<<<<k_metadata, Map(<<<<k_name, Str(<<"y">>)>>, <<k_labels, Map(<<<<k_app, sv>>>>)>>,
                              <<k_annotations, Map(<<>>)>>>>)>>,
          <<k_b, Str(<<"y", "-">>)>>,
          <<k_spec, Null>>,
          <<k_status, sv>>>>)

\* an object whose last field is a string that ends with '-'
DashObject ==
    Map(<<<<k_metadata, Map(<<<<k_name, Str(<<"y">>)>>>>)>>,
          <<k_b, Str(<<"y", "-">>)>>,
          <<k_status, sv>>>>)

\* the objects of a cluster by namespace, kind and name
ClusterOf(n, m, fluentd, ns) ==
    LET all == [q \in {<<ns_s, t_K, n_n>>, <<ns_s, t_K, n_m>>, <<ns_kube_system, t_K, n_fluentd>>,
                       <<ns_s, s_Namespaces, ns_s>>}
                  |-> IF q[3] = n_n THEN n ELSE IF q[3] = n_m THEN m
                      ELSE IF q[3] = n_fluentd THEN fluentd ELSE ns]
    IN [q \in {k \in DOMAIN all : all[k] # Absent} |-> all[q]]
Clusters ==
    { ClusterOf(n, m, fluentd, ns) :
        n \in {WorkloadObject, BareService, StatusOnly, Absent},
        m \in {WorkloadObject, OtherObject, DashObject, Absent},
        fluentd \in {OtherObject, Absent},
        ns \in {OtherObject, Absent} }

Names(l) == List([i \in 1..Len(l) |-> Str(l[i])])
\* contents of the manifest file <service>-resources.yaml: kind -> names; no
\* file (Absent), a file that is no YAML (Raise), an empty file (Null)
ManifestFiles ==
    { Map(<<<<s_Namespaces, Names(<<ns_s>>)>>, <<t_K, Names(<<n_n, n_m>>)>>>>),
      Map(<<<<s_Namespaces, Names(<<ns_s>>)>>, <<t_J, Str(<<"x">>)>>,
            <<t_K, List(<<Str(<<" ", "n", "\n">>), Str(<<" ">>), Null, Str(n_m)>>)>>>>),
      Map(<<<<s_Namespaces, Names(<<ns_s>>)>>, <<t_K, Names(<<n_fluentd, n_n>>)>>>>),
      Map(<<<<s_Namespaces, Names(<<ns_s>>)>>, <<t_K, Names(<<>>)>>, <<t_J, Names(<<n_m>>)>>>>),
      Map(<<<<s_Namespaces, Names(<<<<" ", "s">>>>)>>, <<t_K, Names(<<n_n>>)>>>>),
      Map(<<<<s_Namespaces, List(<<Null>>)>>, <<t_K, Names(<<n_fluentd, n_n>>)>>>>),
      Map(<<<<s_Namespaces, Names(<<>>)>>, <<t_K, Names(<<n_n>>)>>>>),
      Map(<<<<t_K, Names(<<n_m, n_n>>)>>, <<s_Namespaces, Names(<<ns_s>>)>>>>),
      Map(<<<<t_K, Names(<<n_fluentd>>)>>>>),
      Map(<<>>), Str(<<"x">>), Null, Raise, Absent }

ImageRule == Map(<<<<k_a \o <<"|">> \o k_b, Str(<<"P">>)>>>>)
\* contents of the rules file <service>-resources-placeholders.yaml
RuleFiles ==
    { RuleSet(<<ImageRule>>),
      Map(<<<<k_SearchAndReplace, List(<<Map(<<<<n_plain, Str(<<"Q">>)>>>>)>>)>>>>),
      Map(<<<<k_SearchAndReplace, List(<<Map(<<<<n_plain, Str(<<"\"">>)>>>>)>>)>>>>),
      Map(<<<<t_K, List(<<Map(<<<<n_n, List(<<ImageRule>>)>>>>)>>)>>,
            <<k_SearchAndReplace, List(<<Map(<<<<<<"y">>, Str(<<"Q">>)>>>>)>>)>>>>),
      Null, Raise, Absent }

(* ------------------------------------------------------------------ *)
(* State                                                               *)
(* ------------------------------------------------------------------ *)
VARIABLES
    pc,             \* the step the run is at
    obj,            \* the record at hand: the object fetched, the record given
    ret,            \* the value the function under check returned
    ret2,           \* the value it returned when applied to its own result
    placeholders,   \* self.placeholders
    resource_type,  \* the kind of the resource at hand
    resource_name,  \* its name
    input_file,     \* content of the manifest file
    placeholder_file, \* content of the rules file
    cluster,        \* the objects kubectl finds
    kube_context,   \* the kubectl context of the cluster, None until resolved
    data,           \* the manifest as loaded
    ki,             \* position of the outer loop in data.items()
    ni,             \* position of the inner loop in resource_list
    namespace_name, \* the namespace of the queries, unbound at first
    output_f,       \* the output file
    resource_count, \* names processed
    successful_resources, \* documents written
    fetched,        \* the kubectl queries issued, in order
    result          \* what run_kube_extraction returned, None before

\* the variables of a run of run_kube_extraction
run ==
    <<input_file, placeholder_file, cluster, kube_context, data, ki, ni, namespace_name,
      output_f, resource_count, successful_resources, fetched, result>>
vars == <<pc, obj, ret, ret2, placeholders, resource_type, resource_name, run>>

\* no run under way: the engines are applied on their own
NoRun ==
    /\ input_file = Absent
    /\ placeholder_file = Absent
    /\ cluster = <<>>
    /\ kube_context = Null
    /\ data = Null
    /\ ki = 0
    /\ ni = 0
    /\ namespace_name = Unbound
    /\ output_f = NoFile
    /\ resource_count = 0
    /\ successful_resources = 0
    /\ fetched = <<>>
    /\ result = Null

(* ------------------------------------------------------------------ *)
(* The Sanitizer applied to a fetched object, and to its own result    *)
(* ------------------------------------------------------------------ *)
SanInit ==
    /\ NoRun
    /\ pc = "fetched"
    /\ obj \in Objects \cup {Map(<<>>)}
    /\ ret = Null
    /\ ret2 = Null
    /\ placeholders = Map(<<>>)
    /\ resource_type = t_K
    /\ resource_name = n_n

\* fetch_resource line 303
Sanitize ==
    /\ pc = "fetched"
    /\ ret' = clean_kubectl_output_json(KubectlGet(obj))
    /\ pc' = "cleaned"
    /\ UNCHANGED <<obj, ret2, placeholders, resource_type, resource_name, run>>

\* the cleaned record, serialized again, through the Sanitizer once more
SanitizeAgain ==
    /\ pc = "cleaned"
    /\ ~IsRaise(ret)
    /\ ret2' = clean_kubectl_output_json(json_dumps(ret))
    /\ pc' = "recleaned"
    /\ UNCHANGED <<obj, ret, placeholders, resource_type, resource_name, run>>

SanNext == Sanitize \/ SanitizeAgain
SpecSanitize == SanInit /\ [][SanNext]_vars

(* ------------------------------------------------------------------ *)
(* The Placeholder Engine applied to a record                          *)
(* ------------------------------------------------------------------ *)
PhInit ==
    /\ NoRun
    /\ pc = "cleaned"
    /\ obj \in PhRecords
    /\ placeholders \in PlaceholderSets
    /\ resource_type \in {t_K, t_J}
    /\ resource_name \in {n_n, n_m}
    /\ ret = Null
    /\ ret2 = Null

\* run_kube_extraction line 479
AddPlaceholders ==
    /\ pc = "cleaned"
    /\ ret' = add_placeholders(placeholders, obj, resource_type, resource_name)
    /\ pc' = "placed"
    /\ UNCHANGED <<obj, ret2, placeholders, resource_type, resource_name, run>>

PhNext == AddPlaceholders
SpecPlaceholders == PhInit /\ [][PhNext]_vars

(* ------------------------------------------------------------------ *)
(* The Search/Replace Engine applied to a record, and to its own result *)
(* ------------------------------------------------------------------ *)
SrInit ==
    /\ NoRun
    /\ pc = "placed"
    /\ obj \in SrRecords
    /\ placeholders \in SrPlaceholderSets
    /\ resource_type = t_K
    /\ resource_name = n_n
    /\ ret = Null
    /\ ret2 = Null

\* run_kube_extraction line 482
ApplySearchReplace ==
    /\ pc = "placed"
    /\ ret' = apply_search_replace(placeholders, obj)
    /\ pc' = "replaced"
    /\ UNCHANGED <<obj, ret2, placeholders, resource_type, resource_name, run>>

\* the engine once more, on the record it returned
ApplySearchReplaceAgain ==
    /\ pc = "replaced"
    /\ ~IsRaise(ret)
    /\ ret2' = apply_search_replace(placeholders, ret)
    /\ pc' = "replaced again"
    /\ UNCHANGED <<obj, ret, placeholders, resource_type, resource_name, run>>

SrNext == ApplySearchReplace \/ ApplySearchReplaceAgain
SpecSearchReplace == SrInit /\ [][SrNext]_vars

(* ------------------------------------------------------------------ *)
(* Properties of the Sanitizer (SpecSanitize)                          *)
(* ------------------------------------------------------------------ *)

\* C1: the Sanitizer never fails: whatever fields of a fetched mapping are
\* missing or null, it returns a value and raises nothing.
C1_SanitizeTotal == pc = "cleaned" => ~IsRaise(ret)

\* C2: whenever spec.selector.matchLabels is present in the fetched record, the
\* cleaned record has neither pod-template-hash nor pod-template-generation in
\* it, with or without spec.template.
C2_MatchLabelsCleaned ==
    (pc = "cleaned" /\ IsMap(ret) /\ IsMap(At(obj, <<k_spec, k_selector, k_matchLabels>>)))
    => /\ ~HasAt(ret, <<k_spec, k_selector, k_matchLabels, k_podTemplateHash>>)
       /\ ~HasAt(ret, <<k_spec, k_selector, k_matchLabels, k_podTemplateGeneration>>)

ServiceFields == {k_clusterIP, k_clusterIPs, k_loadBalancerIP}
IsService(x) == At(x, <<k_kind>>) = Str(s_Service)
NamedHeadless(x) ==
    /\ IsStr(At(x, <<k_metadata, k_name>>))
    /\ EndsWith(At(x, <<k_metadata, k_name>>).v, s_headless)

\* C3: in the cleaned record of a Service whose name does not end with
\* '-headless', spec.clusterIP, spec.clusterIPs and spec.loadBalancerIP are gone;
\* for a Service whose name ends with '-headless', and for every other kind, the
\* three fields have the values they were fetched with.
C3_ServiceFields ==
    (pc = "cleaned" /\ IsMap(ret))
    => \A f \in ServiceFields :
         IF IsService(obj) /\ ~NamedHeadless(obj)
         THEN ~HasAt(ret, <<k_spec, f>>)
         ELSE At(ret, <<k_spec, f>>) = At(obj, <<k_spec, f>>)
\* a plain Service fetched with a clusterIP has been cleaned, or a headless one
C3_Witness ==
    /\ pc = "cleaned" /\ IsMap(ret) /\ IsService(obj)
    /\ HasAt(obj, <<k_spec, k_clusterIP>>)
    /\ ~NamedHeadless(obj)
    /\ ~HasAt(ret, <<k_spec, k_clusterIP>>)

\* C4: the Sanitizer is idempotent: whenever it returned a record, that record,
\* serialized and cleaned again, is the same record.
C4_Idempotent == (pc = "recleaned" /\ IsMap(ret)) => ret2 = ret

(* ------------------------------------------------------------------ *)
(* Properties of the Placeholder Engine (SpecPlaceholders)             *)
(* ------------------------------------------------------------------ *)
\* the rule set has a rule group for the resource at hand
HasEntry ==
    /\ Has(placeholders, resource_type)
    /\ IsList(Item(placeholders, resource_type))
    /\ \E i \in 1..Len(Item(placeholders, resource_type).v) :
         LET item == Item(placeholders, resource_type).v[i] IN
         IsMap(item) /\ Has(item, resource_name)
RECURSIVE FlatRules(_)
\* the <<path, name>> rules of a rule list, in order
FlatRules(items) ==
    IF items = <<>> THEN <<>>
    ELSE (IF IsMap(Head(items)) THEN Head(items).v ELSE <<>>) \o FlatRules(Tail(items))
\* the rules configured for the resource at hand
Rules ==
    IF ~HasEntry THEN <<>>
    ELSE LET groups == Item(placeholders, resource_type).v
             g == CHOOSE i \in 1..Len(groups) :
                    /\ IsMap(groups[i]) /\ Has(groups[i], resource_name)
                    /\ \A h \in 1..(i - 1) : ~(IsMap(groups[h]) /\ Has(groups[h], resource_name))
             config == Item(groups[g], resource_name)
         IN IF IsList(config) THEN FlatRules(config.v) ELSE <<>>
RuleIds == 1..Len(Rules)
Parts(i) == SplitPath(Rules[i][1])
Tok(i) == Str(Token(Rules[i][2].v))

IsPrefix(p, q) == Len(p) <= Len(q) /\ SubSeq(q, 1, Len(p)) = p
Overlap(p, q) == IsPrefix(p, q) \/ IsPrefix(q, p)
\* a path resolves in a record: two segments or more, and the segments before
\* the last lead through mappings to a mapping
Resolves(x, parts) == Len(parts) >= 2 /\ IsMap(At(x, SubSeq(parts, 1, Len(parts) - 1)))
Keys == {<<"a">>, <<"b">>, <<"c">>}
KeyPaths == UNION {[1..n -> Keys] : n \in 1..3}

\* C5: a rule whose path resolves (and that no other rule overlaps) leaves
\* exactly '||P||' at its path; every field on no rule's path keeps its value;
\* without a rule group for the kind or the name the record is unchanged.
C5_PlaceholderSet ==
    pc = "placed" =>
      /\ ~HasEntry => ret = obj
      /\ \A p \in KeyPaths :
           (\A i \in RuleIds : ~Overlap(p, Parts(i))) => At(ret, p) = At(obj, p)
      /\ \A i \in RuleIds :
           (/\ Resolves(obj, Parts(i))
            /\ \A j \in RuleIds \ {i} : ~Overlap(Parts(j), Parts(i)))
           => At(ret, Parts(i)) = Tok(i)
\* a rule has replaced a field of a record that has other fields
C5_Witness ==
    /\ pc = "placed"
    /\ \E i \in RuleIds :
         /\ Resolves(obj, Parts(i)) /\ HasAt(obj, Parts(i))
         /\ At(ret, Parts(i)) = Tok(i)
         /\ \E p \in KeyPaths : ~Overlap(p, Parts(i)) /\ IsStr(At(ret, p))

\* C6: a rule whose path does not resolve changes nothing and raises nothing,
\* and the other rules of the list are applied all the same.
C6_UnresolvedSkipped ==
    pc = "placed" =>
      /\ ~IsRaise(ret)
      /\ \A p \in KeyPaths :
           (\A i \in RuleIds : Resolves(obj, Parts(i)) => ~Overlap(p, Parts(i)))
           => At(ret, p) = At(obj, p)
      /\ \A i, j \in RuleIds :
           (/\ ~Resolves(obj, Parts(i))
            /\ Resolves(obj, Parts(j))
            /\ \A k \in RuleIds \ {j} :
                 Resolves(obj, Parts(k)) => ~Overlap(Parts(k), Parts(j)))
           => At(ret, Parts(j)) = Tok(j)
\* an unresolved rule came first and the rule after it was applied
C6_Witness ==
    /\ pc = "placed"
    /\ \E i, j \in RuleIds :
         /\ i < j
         /\ ~Resolves(obj, Parts(i)) /\ Len(Parts(i)) >= 2
         /\ Resolves(obj, Parts(j))
         /\ At(ret, Parts(j)) = Tok(j)
         /\ At(obj, Parts(j)) # Tok(j)

\* rules i < j both resolve in the record given, and no third rule overlaps them
OverlappingPair(i, j) ==
    /\ i < j
    /\ Resolves(obj, Parts(i)) /\ Resolves(obj, Parts(j))
    /\ Overlap(Parts(i), Parts(j))
    /\ \A k \in RuleIds \ {i, j} :
         ~Overlap(Parts(k), Parts(i)) /\ ~Overlap(Parts(k), Parts(j))

\* C7: of two rules with overlapping paths (the same path, or one a strict
\* prefix of the other, in either order) the later wins: its token is the value
\* at its path.
C7_LaterWins ==
    pc = "placed" =>
      \A i, j \in RuleIds : OverlappingPair(i, j) => At(ret, Parts(j)) = Tok(j)

\* C7 as amended: the later rule wins when its path is the earlier rule's path
\* or a prefix of it; when the earlier rule's path is a strict prefix of the
\* later's, the earlier rule's token stays and the later rule is skipped.
C7_LaterWinsUnlessShadowed ==
    pc = "placed" =>
      \A i, j \in RuleIds : OverlappingPair(i, j) =>
        IF IsPrefix(Parts(j), Parts(i))
        THEN At(ret, Parts(j)) = Tok(j)
        ELSE At(ret, Parts(i)) = Tok(i) /\ ~HasAt(ret, Parts(j))
\* a later rule has overwritten what an earlier rule with another name set
C7_Witness ==
    /\ pc = "placed"
    /\ \E i, j \in RuleIds :
         /\ OverlappingPair(i, j) /\ IsPrefix(Parts(j), Parts(i))
         /\ Tok(i) # Tok(j)
         /\ At(ret, Parts(j)) = Tok(j)

(* ------------------------------------------------------------------ *)
(* Properties of the Search/Replace Engine (SpecSearchReplace)         *)
(* ------------------------------------------------------------------ *)
\* the {literal -> name} rules the engine applies, in declared order
SrRules ==
    IF Has(placeholders, k_SearchAndReplace) /\ IsList(Item(placeholders, k_SearchAndReplace))
    THEN SelectSeq(FlatRules(Item(placeholders, k_SearchAndReplace).v),
                   LAMBDA r : IsStr(r[2]))
    ELSE <<>>
RECURSIVE SubstString(_, _, _)
\* a string after the rules from the i-th on, each a global literal replacement
SubstString(str, rules, i) ==
    IF i > Len(rules) THEN str
    ELSE SubstString(str_replace(str, rules[i][1], Token(rules[i][2].v)), rules, i + 1)
RECURSIVE Subst(_, _)
RECURSIVE SubstPairs(_, _, _, _)
SubstPairs(pairs, rules, i, done) ==
    IF i > Len(pairs) THEN done
    ELSE SubstPairs(pairs, rules, i + 1,
                    AddPair(done, SubstString(pairs[i][1], rules, 1), Subst(pairs[i][2], rules)))
\* a record with the replacements made string by string, at every depth
Subst(x, rules) ==
    CASE IsStr(x) -> Str(SubstString(x.v, rules, 1))
      [] IsMap(x) -> Map(SubstPairs(x.v, rules, 1, <<>>))
      [] OTHER -> x

\* no character that JSON text escapes or delimits strings with
PlainString(str) == \A i \in 1..Len(str) : str[i] \notin {"\"", "\\", "\n"}
PlainRules == \A i \in 1..Len(SrRules) :
                 PlainString(SrRules[i][1]) /\ PlainString(SrRules[i][2].v)
Occurs(lit, txt) ==
    \E i \in 1..(Len(txt) - Len(lit) + 1) : SubSeq(txt, i, i + Len(lit) - 1) = lit

\* C8: the engine's result is the record in which every occurrence of each
\* rule's literal inside a string, at any nesting depth, is replaced by the
\* rule's token, rule after rule; without Search_and_Replace rules the record
\* is returned unchanged.
C8_EveryOccurrenceReplaced ==
    (pc = "replaced" /\ ~IsRaise(ret)) => ret = Subst(obj, SrRules)

\* C8 as amended: the same for rules whose literals and names hold no character
\* that JSON text escapes (double quote, backslash, newline).
C8_PlainOccurrencesReplaced ==
    (pc = "replaced" /\ ~IsRaise(ret) /\ PlainRules) => ret = Subst(obj, SrRules)
\* two chained rules have rewritten a nested string of the record
C8_Witness ==
    /\ pc = "replaced" /\ ~IsRaise(ret) /\ PlainRules
    /\ Len(SrRules) = 2
    /\ ret # obj
    /\ \E k1, k2 \in {<<"k">>, <<"x">>} : IsStr(At(obj, <<k1, k2>>))
                                           /\ At(ret, <<k1, k2>>) # At(obj, <<k1, k2>>)
                                           /\ IsStr(At(ret, <<k1, k2>>))

JsonModelled == ret.t # "unmodelled" /\ ret2.t # "unmodelled"

(* ------------------------------------------------------------------ *)
(* Extraction Orchestrator: run_kube_extraction                        *)
(* ------------------------------------------------------------------ *)
s_context == <<"c", "t", "x">>

Init ==
    /\ pc = "start"
    /\ obj = Null
    /\ ret = Null
    /\ ret2 = Null
    /\ placeholders = Null
    /\ resource_type = <<>>
    /\ resource_name = <<>>
    /\ input_file \in ManifestFiles
    /\ placeholder_file \in RuleFiles
    /\ cluster \in Clusters
    /\ kube_context = Null
    /\ data = Null
    /\ ki = 0
    /\ ni = 0
    /\ namespace_name = Unbound
    /\ output_f = NoFile
    /\ resource_count = 0
    /\ successful_resources = 0
    /\ fetched = <<>>
    /\ result = Null

\* lines 424-436: check_dependencies, load_config and get_kubectl_context give
\* the context of the cluster, or exit
GetKubectlContext ==
    /\ pc = "start"
    /\ \E resolved \in BOOLEAN :
        IF resolved THEN kube_context' = Str(s_context) /\ pc' = "context"
        ELSE pc' = "fatal" /\ UNCHANGED kube_context
    /\ UNCHANGED <<obj, ret, ret2, placeholders, resource_type, resource_name, input_file,
                   placeholder_file, cluster, data, ki, ni, namespace_name, output_f,
                   resource_count, successful_resources, fetched, result>>

\* lines 454-462: the manifest is read, the rules are loaded, the output file
\* is opened; a missing or unparsable manifest is fatal, an empty one returns
LoadManifest ==
    /\ pc = "context"
    /\ IF input_file \in {Absent, Raise}
       THEN pc' = "fatal" /\ UNCHANGED <<data, placeholders, output_f, ki>>
       ELSE /\ data' = input_file
            /\ IF ~Truthy(input_file)
               THEN pc' = "returned" /\ UNCHANGED <<placeholders, output_f, ki>>
               ELSE /\ placeholders' = load_placeholders(placeholder_file)
                    /\ output_f' = Opened
                    /\ IF IsMap(input_file) THEN pc' = "kinds" /\ ki' = 1
                       ELSE pc' = "fatal" /\ UNCHANGED ki
    /\ UNCHANGED <<obj, ret, ret2, resource_type, resource_name, input_file, placeholder_file,
                   cluster, kube_context, ni, namespace_name, resource_count,
                   successful_resources, fetched, result>>

\* lines 463-468 and 503-504: the next kind of the manifest; the first name of
\* the kind Namespaces becomes the namespace
NextKind ==
    /\ pc = "kinds"
    /\ ki <= Len(data.v)
    /\ LET resource_list == data.v[ki][2] IN
        /\ resource_type' = data.v[ki][1]
        /\ IF ~IsList(resource_list)
           THEN ki' = ki + 1 /\ UNCHANGED <<pc, ni, namespace_name>>
           ELSE IF data.v[ki][1] = s_Namespaces /\ resource_list.v = <<>>
           THEN pc' = "fatal" /\ UNCHANGED <<ki, ni, namespace_name>>
           ELSE /\ namespace_name' = IF data.v[ki][1] = s_Namespaces THEN resource_list.v[1]
                                     ELSE namespace_name
                /\ IF resource_list.v = <<>> THEN ki' = ki + 1 /\ UNCHANGED <<pc, ni>>
                   ELSE pc' = "names" /\ ni' = 1 /\ UNCHANGED ki
    /\ UNCHANGED <<obj, ret, ret2, placeholders, resource_name, input_file, placeholder_file,
                   cluster, kube_context, data, output_f, resource_count,
                   successful_resources, fetched, result>>

\* lines 469-502: one name of the list: fetched, given its placeholders and
\* replacements, written with the separator after it; any exception is fatal
ProcessResource ==
    /\ pc = "names"
    /\ LET proceed == IF ni < Len(data.v[ki][2].v) THEN pc' = "names" /\ ni' = ni + 1 /\ ki' = ki
                      ELSE pc' = "kinds" /\ ni' = ni /\ ki' = ki + 1
           exit == pc' = "fatal" /\ UNCHANGED <<ki, ni>>
       IN \E item \in {data.v[ki][2].v[ni]} :
          IF ~(IsStr(item) /\ strip(item.v) # <<>>)
          THEN /\ proceed
               /\ UNCHANGED <<obj, ret, resource_name, output_f, resource_count,
                              successful_resources, fetched>>
          ELSE \E name \in {strip(item.v)} :
               \E runs \in {namespace_name # Absent /\ KubectlRuns(name, namespace_name)} :
               \E json_data \in {IF runs
                                 THEN fetch_resource(cluster, resource_type, name, namespace_name)
                                 ELSE Raise} :
               /\ resource_name' = name
               /\ resource_count' = resource_count + 1
               /\ fetched' = IF runs THEN Append(fetched, Query(resource_type, name, namespace_name))
                             ELSE fetched
               /\ obj' = json_data
               /\ IF IsRaise(json_data)
                  THEN exit /\ UNCHANGED <<ret, output_f, successful_resources>>
                  ELSE IF ~Truthy(json_data)
                  THEN proceed /\ UNCHANGED <<ret, output_f, successful_resources>>
                  ELSE \E json_data_with_placeholders \in
                            {add_placeholders(placeholders, json_data, resource_type, name)} :
                       \E json_data_with_replacements \in
                            {IF IsRaise(json_data_with_placeholders) THEN Raise
                             ELSE apply_search_replace(placeholders, json_data_with_placeholders)} :
                       /\ ret' = json_data_with_replacements
                       /\ IF IsRaise(json_data_with_replacements)
                          THEN exit /\ UNCHANGED <<output_f, successful_resources>>
                          ELSE /\ output_f' = Write(Write(output_f, yaml_dump(json_data_with_replacements)),
                                                    Boundary)
                               /\ successful_resources' = successful_resources + 1
                               /\ proceed
    /\ UNCHANGED <<ret2, placeholders, resource_type, input_file, placeholder_file, cluster,
                   kube_context, data, namespace_name, result>>

\* lines 516-524: after the last kind the output file is trimmed and its path
\* returned
CleanupOutputFile ==
    /\ pc = "kinds"
    /\ ki > Len(data.v)
    /\ output_f' = cleanup_output_file(output_f)
    /\ pc' = "returned"
    /\ result' = Str(output_file)
    /\ UNCHANGED <<obj, ret, ret2, placeholders, resource_type, resource_name, input_file,
                   placeholder_file, cluster, kube_context, data, ki, ni, namespace_name,
                   resource_count, successful_resources, fetched>>

Next == GetKubectlContext \/ LoadManifest \/ NextKind \/ ProcessResource \/ CleanupOutputFile
Spec == Init /\ [][Next]_vars

\* every document written is YAML the model has text for
YamlModelled == \A i \in 1..Len(output_f.text) : "<unmodelled>" \notin {output_f.text[i][j] : j \in 1..Len(output_f.text[i])}
\* every record of a run is a value the model has
RunJsonModelled == obj.t # "unmodelled" /\ ret.t # "unmodelled"

(* ------------------------------------------------------------------ *)
(* Properties of a run (Spec)                                          *)
(* ------------------------------------------------------------------ *)
\* the name the inner loop is at, when it is one
AtName ==
    /\ pc = "names"
    /\ IsStr(data.v[ki][2].v[ni])
    /\ strip(data.v[ki][2].v[ni].v) # <<>>
ThisName == strip(data.v[ki][2].v[ni].v)
\* the text the Search/Replace Engine makes of record d under the loaded rules
HasSrRules == Truthy(placeholders) /\ IsList(DictGet(placeholders, k_SearchAndReplace, Null))
ReplacedText(d) == ReplaceItems(json_dumps(d), Item(placeholders, k_SearchAndReplace).v, 1)
\* the record of the name at hand reaches the Search/Replace Engine, and the
\* text the engine produces does not parse
ReparseFails ==
    /\ AtName
    /\ namespace_name # Absent
    /\ KubectlRuns(ThisName, namespace_name)
    /\ HasSrRules
    /\ LET json_data == fetch_resource(cluster, resource_type, ThisName, namespace_name)
           placed == add_placeholders(placeholders, json_data, resource_type, ThisName)
       IN /\ ~IsRaise(json_data) /\ Truthy(json_data)
          /\ ~IsRaise(placed)
          /\ IsRaise(json_loads(ReplacedText(placed)))
\* entries of the manifest after the one the loop is at
EntriesLeft == ni < Len(data.v[ki][2].v) \/ ki < Len(data.v)

\* C10: when the text Search/Replace produces for a record does not re-parse,
\* the run aborts at that record: the step ends in the fatal state with the
\* output file and the count of written documents as they were (nothing is
\* written for the record, the earlier documents and their separators stay),
\* the record's own query is the last one issued, and no step follows a fatal
\* state (no later entry is fetched or written, the file is not trimmed).
C10_ReparseFailureFatal ==
    [][ /\ pc # "fatal"
        /\ ReparseFails =>
             /\ pc' = "fatal"
             /\ output_f' = output_f
             /\ successful_resources' = successful_resources
             /\ fetched' = Append(fetched, Query(resource_type, ThisName, namespace_name)) ]_vars

\* a run aborted by a re-parse failure after a document was written and with
\* entries of the manifest still to come
C10_Witness ==
    /\ pc = "fatal"
    /\ IsMap(obj) /\ Truthy(obj)
    /\ IsRaise(ret)
    /\ HasSrRules
    /\ IsRaise(json_loads(ReplacedText(add_placeholders(placeholders, obj, resource_type, resource_name))))
    /\ Len(output_f.text) >= 2
    /\ output_f.text[Len(output_f.text)] = Boundary
    /\ EntriesLeft

\* the manifest lists the kind Namespaces first
NamespacesFirst == IsMap(data) /\ data.v # <<>> /\ data.v[1][1] = s_Namespaces
\* the queries of the run for which kubectl printed an object, in order
Found == SelectSeq(fetched, LAMBDA q : Stdout(cluster, q) # <<>>)
\* the serialized sanitized form of the object a query found
DocumentOf(q) == yaml_dump(clean_kubectl_output_json(Stdout(cluster, q)))
\* these documents with the boundary line between them
Joined ==
    Flatten([i \in 1..Len(Found) |->
                IF i < Len(Found) THEN DocumentOf(Found[i]) \o Boundary ELSE DocumentOf(Found[i])],
            1, Len(Found))

\* C11: with no rules configured and Namespaces first in the manifest, the
\* finalized output file is exactly the serialized sanitized records of the
\* resources kubectl found, one document each in manifest order, with the
\* boundary line between them and none before or after (the last document with
\* or without its final newline); a resource not found adds nothing.
C11_EndToEnd ==
    (pc = "returned" /\ output_f.exists /\ placeholders = Map(<<>>) /\ NamespacesFirst)
    => Content(output_f) \in {Joined, rstrip(Joined, {"\n"})}

\* whether an item of a manifest list is a name the loop processes
IsName(item) == IsStr(item) /\ strip(item.v) # <<>>
\* the names among the first n items of the list of the k-th kind
NamesOf(k, n) ==
    IF IsList(data.v[k][2])
    THEN Cardinality({i \in 1..n : i <= Len(data.v[k][2].v) /\ IsName(data.v[k][2].v[i])})
    ELSE 0
RECURSIVE NamesBefore(_)
\* the names of the kinds before the k-th
NamesBefore(k) ==
    IF k <= 1 THEN 0 ELSE NamesBefore(k - 1) + NamesOf(k - 1, Len(data.v[k - 1][2].v))
\* the names the loop has been through
Iterated ==
    IF pc = "names" THEN NamesBefore(ki) + NamesOf(ki, ni - 1)
    ELSE NamesBefore(ki)
\* the documents of a file content: one more than its boundary lines
Documents(content) ==
    IF content = <<>> THEN 0
    ELSE 1 + Cardinality({i \in 1..Len(content) - 4 :
                            SubSeq(content, i, i + 4) = <<"\n">> \o Boundary})
\* the name at hand is one kubectl finds nothing for
NotFoundHere ==
    /\ AtName
    /\ namespace_name # Absent
    /\ KubectlRuns(ThisName, namespace_name)
    /\ Stdout(cluster, Query(resource_type, ThisName, namespace_name)) = <<>>

\* C12: a resource kubectl finds nothing for does not end the run: its step
\* issues exactly one query, raises the attempted count and not the succeeded
\* count, writes nothing and moves the loop to the next entry; throughout the
\* loop attempted is the number of non-blank names gone through and succeeded
\* the number of documents written, and so they are when the run returns.
C12_NotFoundSkipped ==
    /\ []((pc \in {"kinds", "names"}) =>
            /\ resource_count = Iterated
            /\ 2 * successful_resources = Len(output_f.text))
    /\ []((pc = "returned" /\ result # Null) =>
            /\ resource_count = NamesBefore(Len(data.v) + 1)
            /\ successful_resources = Documents(Content(output_f)))
    /\ [][NotFoundHere =>
            /\ pc' \in {"kinds", "names"}
            /\ <<ki', ni'>> # <<ki, ni>>
            /\ resource_count' = resource_count + 1
            /\ successful_resources' = successful_resources
            /\ output_f' = output_f
            /\ fetched' = Append(fetched, Query(resource_type, ThisName, namespace_name))]_vars

\* a returned run in which a resource was not found and a later one was written
C12_Witness ==
    /\ pc = "returned"
    /\ result # Null
    /\ successful_resources >= 1
    /\ resource_count > successful_resources
    /\ \E i \in 1..Len(fetched) - 1 :
          /\ Stdout(cluster, fetched[i]) = <<>>
          /\ Stdout(cluster, fetched[i + 1]) # <<>>

\* the first name listed under the kind Namespaces, when there is one
FirstNamespace ==
    LET at == {k \in 1..Len(data.v) : data.v[k][1] = s_Namespaces}
        k == CHOOSE k \in at : TRUE
    IN IF IsMap(data) /\ at # {} /\ IsList(data.v[k][2]) /\ data.v[k][2].v # <<>>
          /\ IsStr(data.v[k][2].v[1])
       THEN data.v[k][2].v[1].v
       ELSE <<>>

\* C13: every query for a name of a kind other than Namespaces goes to the
\* namespace that is the first name listed under Namespaces, whatever the name
\* of the resource.
C13_FirstNamespaceUsed ==
    \A i \in 1..Len(fetched) :
        fetched[i][2] # s_Namespaces => fetched[i][1] = FirstNamespace

\* C14: a missing manifest file ends the run in the fatal state with no query
\* issued and no output file; a missing rules file does not: the manifest is
\* loaded and the loop entered with the empty rule set, and every record comes
\* out of the Placeholder Engine and the Search/Replace Engine as it went in.
C14_ConfigErrors ==
    /\ [](input_file = Absent =>
            /\ pc \in {"start", "context", "fatal"}
            /\ fetched = <<>>
            /\ ~output_f.exists)
    /\ []((placeholder_file = Absent /\ (pc \in {"kinds", "names"} \/ result # Null)) =>
            /\ placeholders = Map(<<>>)
            /\ (IsMap(obj) /\ Truthy(obj) =>
                  /\ ret = obj
                  /\ add_placeholders(placeholders, obj, resource_type, resource_name) = obj
                  /\ apply_search_replace(placeholders, obj) = obj))
    /\ [][(pc = "context" /\ input_file = Absent => pc' = "fatal")
          /\ (pc = "context" /\ placeholder_file = Absent /\ IsMap(input_file) /\ Truthy(input_file)
                => pc' = "kinds")]_vars

\* a run without a rules file that wrote a record a rule of RuleFiles addresses
C14_Witness ==
    /\ pc = "returned"
    /\ placeholder_file = Absent
    /\ successful_resources >= 1
    /\ HasAt(obj, <<k_a, k_b>>)
    /\ ret = obj

\* C15: a call that returns (does not end in the fatal state) returns the path
\* of the output file, and that file exists, whatever the manifest file holds.
C15_ReturnsOutputFile ==
    pc = "returned" => (result = Str(output_file) /\ output_f.exists)

(* ------------------------------------------------------------------ *)
(* The final trim applied to a file, and to the file it leaves         *)
(* ------------------------------------------------------------------ *)
\* the longest file content
MaxContent == 6
ContentChars == {"a", "-", "\n", " "}
Contents == UNION {[1..n -> ContentChars] : n \in 0..MaxContent}

TrimInit ==
    /\ pc = "written"
    /\ \E content \in Contents :
          /\ obj = Str(content)
          /\ output_f = [exists |-> TRUE, text |-> <<content>>]
    /\ ret = Null
    /\ ret2 = Null
    /\ placeholders = Map(<<>>)
    /\ resource_type = t_K
    /\ resource_name = n_n
    /\ input_file = Absent
    /\ placeholder_file = Absent
    /\ cluster = <<>>
    /\ kube_context = Null
    /\ data = Null
    /\ ki = 0
    /\ ni = 0
    /\ namespace_name = Unbound
    /\ resource_count = 0
    /\ successful_resources = 0
    /\ fetched = <<>>
    /\ result = Null

\* run_kube_extraction line 517
Trim ==
    /\ pc = "written"
    /\ output_f' = cleanup_output_file(output_f)
    /\ pc' = "trimmed"
    /\ UNCHANGED <<obj, ret, ret2, placeholders, resource_type, resource_name, input_file,
                   placeholder_file, cluster, kube_context, data, ki, ni, namespace_name,
                   resource_count, successful_resources, fetched, result>>

\* the trim once more, on the file it left
TrimAgain ==
    /\ pc = "trimmed"
    /\ output_f' = cleanup_output_file(output_f)
    /\ pc' = "trimmed again"
    /\ UNCHANGED <<obj, ret, ret2, placeholders, resource_type, resource_name, input_file,
                   placeholder_file, cluster, kube_context, data, ki, ni, namespace_name,
                   resource_count, successful_resources, fetched, result>>

TrimNext == Trim \/ TrimAgain
SpecTrim == TrimInit /\ [][TrimNext]_vars

C17_StateOrder ==
    /\ [][pc = "start" => (data # Null /\ placeholders # Null)]_vars
    /\ [](fetched # <<>> => kube_context # Null)
    /\ [][(pc' = "returned" /\ result' # Null) => (pc = "kinds" /\ ki > Len(data.v))]_vars
    /\ [][(pc = "start" /\ kube_context' = Null) => pc' = "fatal"]_vars
    /\ []((pc = "fatal" /\ kube_context = Null) => fetched = <<>>)

\* C18: the trim takes from the file only the boundary line after the last
\* document and that document's final newline: what it leaves is everything
\* written before the last boundary line, less the final newline, also when
\* the document's last line ends with '-'.
C18_LastDocumentKept ==
    [][(pc = "kinds" /\ ki > Len(data.v) /\ output_f.text # <<>>) =>
          Content(output_f') = rstrip(Flatten(output_f.text, 1, Len(output_f.text) - 1), {"\n"})]_vars


\* the loop has reached or passed a 'Namespaces' kind with a non-empty list,
\* the only place namespace_name is assigned
NamespaceCaptured ==
    \E k \in 1..ki :
        /\ k <= Len(data.v)
        /\ data.v[k][1] = s_Namespaces
        /\ IsList(data.v[k][2])
        /\ data.v[k][2].v # <<>>
EmptyNamespaces ==
    /\ pc = "kinds"
    /\ ki <= Len(data.v)
    /\ data.v[ki][1] = s_Namespaces
    /\ IsList(data.v[ki][2])
    /\ data.v[ki][2].v = <<>>

\* C19: no query is issued with an undefined namespace: a non-blank name the
\* loop meets before any 'Namespaces' kind has given a namespace (the kind
\* comes earlier, or the manifest has no such kind), and a 'Namespaces' kind
\* with an empty list, end the run fatally at that entry, with no query and
\* no document; every query names the first listed namespace or kube-system.
C19_NoUndefinedNamespace ==
    /\ [][(AtName /\ ~NamespaceCaptured) =>
            (pc' = "fatal" /\ fetched' = fetched /\ output_f' = output_f)]_vars
    /\ [][EmptyNamespaces =>
            (pc' = "fatal" /\ fetched' = fetched /\ output_f' = output_f)]_vars
    /\ [](\A i \in 1..Len(fetched) :
            /\ fetched[i][1] \in {FirstNamespace, ns_kube_system}
            /\ fetched[i][1] # <<>>)
\* a run ended at the first name of a kind listed before any namespace, with
\* no query made and nothing written
C19_Witness ==
    /\ pc = "fatal"
    /\ IsMap(data)
    /\ ki <= Len(data.v)
    /\ ~NamespaceCaptured
    /\ IsList(data.v[ki][2])
    /\ data.v[ki][2].v # <<>>
    /\ kube_context # Null
    /\ placeholders # Null
    /\ resource_count = 1
    /\ fetched = <<>>
    /\ output_f.exists
    /\ output_f.text = <<>>
====
